---- MODULE Spec2Model ----
(***************************************************************************)
(* A model of the recursive-descent regular-expression parser of           *)
(* src/main.py.  The parser's call stack is explicit: every rule           *)
(* (parse, regex, term, factor, base) is a frame, every action is one      *)
(* step of one rule.  Characters are one-character strings, the input and  *)
(* the remaining tokens are sequences of characters, AST nodes are         *)
(* records tagged with the name of their Python class.                     *)
(***************************************************************************)
EXTENDS Integers, Sequences, FiniteSets

\* ------------------------------------------------------------- bounds
\* Inputs are all strings over Sigma of at most MaxLen characters, plus the
\* demonstration inputs of the source.
MaxLen == 5

\* How many times a successfully parsed tree is rendered and parsed again.
MaxRounds == 2

Sigma == {"a", ".", "(", ")", "|", "*"}

\* ------------------------------------------------------------- AST nodes
Normal(c) == [t |-> "Normal", char |-> c]

Any == [t |-> "Any"]

ZeroOrMore(e) == [t |-> "ZeroOrMore", exp |-> e]

Or(e1, e2) == [t |-> "Or", exp1 |-> e1, exp2 |-> e2]

Str(es) == [t |-> "Str", exps |-> es]

\* The bare Node() that base returns after "Unexpected symbol: *".
Node == [t |-> "Node"]

\* Python's None.
None == [t |-> "None"]

\* ------------------------------------------------------------- rendering
RECURSIVE Render(_)
RECURSIVE RenderAll(_)
\* __str__ of each node class.
Render(n) ==
    CASE n.t = "Normal" -> <<n.char>>
      [] n.t = "Any" -> <<".">>
      [] n.t = "ZeroOrMore" -> Render(n.exp) \o <<"*">>
      [] n.t = "Or" -> Render(n.exp1) \o <<"|">> \o Render(n.exp2)
      [] n.t = "Str" -> <<"(">> \o RenderAll(n.exps) \o <<")">>

\* ''.join([str(e) for e in self.exps])
RenderAll(es) ==
    IF es = <<>> THEN <<>> ELSE Render(Head(es)) \o RenderAll(Tail(es))

\* ------------------------------------------------------------- inputs
\* The inputs of the __main__ block.
Demo ==
    { <<"a","b","*">>, <<"(","a","b",")","*">>, <<"a","b","|","a">>,
      <<"a","(","b","|","a",")">>, <<"a","|","b","*">>,
      <<"(","a","|","b",")","*">>, <<"a","|","b">>, <<"a">>, <<"a","b">>,
      <<"a",".","*">>,
      <<"(","a",".","*",")","|","(","b","b",")">>,
      <<>>, <<")","(">>, <<"*">>, <<"a","(">>, <<"(",")">>, <<"a","*","*">> }

Inputs == UNION { [1..n -> Sigma] : n \in 0..MaxLen } \cup Demo

\* ------------------------------------------------------------- state
VARIABLES
    inp,       \* Parser.inp: the original input
    tokens,    \* Parser.tokens: the unconsumed input
    failure,   \* Parser.failure
    stack,     \* the call stack of rule frames, innermost last
    ret,       \* the value returned by the call that returned last
    errors,    \* the messages error() printed, with the rule that called it
    result,    \* what parse returned
    pc,        \* "start", "running", "done" or "crashed" (IndexError in peek)
    round,     \* how many times the tree was rendered and parsed again
    steps      \* how many steps the current parse has taken

vars == <<inp, tokens, failure, stack, ret, errors, result, pc, round, steps>>

\* A frame: the rule, where it is, its local node (regex: term), its local
\* list (term: factor.exps), the number of tokens left when it was entered
\* and how many '|' it consumed.
Frame(rule, at, n) ==
    [rule |-> rule, at |-> at, val |-> None, exps |-> <<>>, n0 |-> n, bars |-> 0]

Top == stack[Len(stack)]

Pop == SubSeq(stack, 1, Len(stack) - 1)

SetTop(f) == [stack EXCEPT ![Len(stack)] = f]

In(rule, at) ==
    /\ pc = "running"
    /\ stack # <<>>
    /\ Top.rule = rule
    /\ Top.at = at

\* ------------------------------------------------------------- primitives
\* accept(symbol): whether it consumes.
Accepts(toks, symbol) == toks # <<>> /\ toks[1] = symbol

\* next_token
NextToken(toks) == Tail(toks)

\* error(message) called by a rule: the message printed.
UnexpectedSymbol(c, by) == [msg |-> "Unexpected symbol", sym |-> c, by |-> by]

UnexpectedEOF(by) == [msg |-> "Unexpected end of file", sym |-> "", by |-> by]

EmptyFactor(by) == [msg |-> "Empty factor", sym |-> "", by |-> by]

\* Mutant: base takes '*' for an ordinary character.
BaseStar_Never(toks) == FALSE

\* base: whether the '*' check of its last branch finds a '*'.
BaseStar(toks) == Accepts(toks, "*")

\* Mutant: a failed expect names the symbol it wanted, whatever follows.
ExpectError_Wanted(toks) == UnexpectedSymbol(")", "expect")

\* expect: the message of a failed expect.
ExpectError(toks) ==
    IF toks # <<>> THEN UnexpectedSymbol(toks[1], "expect")
    ELSE UnexpectedEOF("expect")

\* Mutant: the while condition of term peeks without looking for input.
TermGuard_Always(toks) == TRUE

\* The first conjunct of the while condition of term, which guards its peeks.
TermGuard(toks) == toks # <<>>

\* Mutant: the while condition of term does not stop at ')'.
TermCond_NoParen(toks) ==
    IF toks = <<>> THEN "exit"
    ELSE IF toks[1] # "|" THEN "loop"
    ELSE "exit"

\* Mutant: the while condition of term does not stop at '|'.
TermCond_NoBar(toks) ==
    IF toks = <<>> THEN "exit"
    ELSE IF toks[1] # ")" THEN "loop"
    ELSE "exit"

\* The while condition of term: "fault" is peek raising IndexError.
TermCond(toks) ==
    IF ~TermGuard(toks) THEN "exit"
    ELSE IF toks = <<>> THEN "fault"
    ELSE IF toks[1] # ")" /\ toks[1] # "|" THEN "loop"
    ELSE "exit"

\* Mutant: term never unwraps a single factor.
TermResult_NoCollapse(exps) == Str(exps)

\* The end of term: what it returns for the factors it collected.
TermResult(exps) == IF Len(exps) = 1 THEN exps[1] ELSE Str(exps)

\* ------------------------------------------------------------- actions
Init ==
    /\ inp \in Inputs
    /\ tokens = inp
    /\ failure = FALSE
    /\ stack = <<>>
    /\ ret = None
    /\ errors = <<>>
    /\ result = None
    /\ pc = "start"
    /\ round = 0
    /\ steps = 0

\* parse calls regex, which calls term.
Parse_Begin ==
    /\ steps' = steps + 1
    /\ pc = "start"
    /\ pc' = "running"
    /\ stack' = << Frame("parse", "after_regex", Len(tokens)),
                   Frame("regex", "after_term1", Len(tokens)),
                   Frame("term", "loop", Len(tokens)) >>
    /\ UNCHANGED <<inp, tokens, failure, ret, errors, result, round>>

\* term: the loop condition holds, factor is called, which calls base.
Term_Factor ==
    /\ steps' = steps + 1
    /\ In("term", "loop")
    /\ TermCond(tokens) = "loop"
    /\ stack' = SetTop([Top EXCEPT !.at = "add"])
                  \o << Frame("factor", "after_base", Len(tokens)),
                        Frame("base", "start", Len(tokens)) >>
    /\ UNCHANGED <<inp, tokens, failure, ret, errors, result, pc, round>>

\* term: factor.add(next_factor)
Term_Add ==
    /\ steps' = steps + 1
    /\ In("term", "add")
    /\ stack' = SetTop([Top EXCEPT !.at = "loop", !.exps = Append(@, ret)])
    /\ UNCHANGED <<inp, tokens, failure, ret, errors, result, pc, round>>

\* term: the loop ends (or its peek faults); Empty factor; the collapse.
Term_Return ==
    /\ steps' = steps + 1
    /\ In("term", "loop")
    /\ TermCond(tokens) # "loop"
    /\ IF TermCond(tokens) = "fault"
       THEN /\ pc' = "crashed"
            /\ UNCHANGED <<failure, errors, ret, stack>>
       ELSE /\ pc' = pc
            /\ failure' = (failure \/ Top.exps = <<>>)
            /\ errors' = IF Top.exps = <<>>
                         THEN Append(errors, EmptyFactor("term"))
                         ELSE errors
            /\ ret' = TermResult(Top.exps)
            /\ stack' = Pop
    /\ UNCHANGED <<inp, tokens, result, round>>

\* factor: after base, one optional '*'.
Factor_Return ==
    /\ steps' = steps + 1
    /\ In("factor", "after_base")
    /\ IF Accepts(tokens, "*")
       THEN /\ tokens' = NextToken(tokens)
            /\ ret' = ZeroOrMore(ret)
       ELSE UNCHANGED <<tokens, ret>>
    /\ stack' = Pop
    /\ UNCHANGED <<inp, failure, errors, result, pc, round>>

\* base: '(' opens a group, regex is called, which calls term.
Base_Group ==
    /\ steps' = steps + 1
    /\ In("base", "start")
    /\ Accepts(tokens, "(")
    /\ tokens' = NextToken(tokens)
    /\ stack' = SetTop([Top EXCEPT !.at = "after_regex"])
                  \o << Frame("regex", "after_term1", Len(tokens')),
                        Frame("term", "loop", Len(tokens')) >>
    /\ UNCHANGED <<inp, failure, ret, errors, result, pc, round>>

\* base: expect(')') after the group's regex, then return the regex.
Base_Expect ==
    /\ steps' = steps + 1
    /\ In("base", "after_regex")
    /\ IF Accepts(tokens, ")")
       THEN /\ tokens' = NextToken(tokens)
            /\ UNCHANGED <<failure, errors>>
       ELSE /\ tokens' = tokens
            /\ failure' = TRUE
            /\ errors' = Append(errors, ExpectError(tokens))
    /\ stack' = Pop
    /\ UNCHANGED <<inp, ret, result, pc, round>>

\* base: '.'
Base_Any ==
    /\ steps' = steps + 1
    /\ In("base", "start")
    /\ ~Accepts(tokens, "(")
    /\ Accepts(tokens, ".")
    /\ tokens' = NextToken(tokens)
    /\ ret' = Any
    /\ stack' = Pop
    /\ UNCHANGED <<inp, failure, errors, result, pc, round>>

\* base: '*' where a base must start.
Base_Star ==
    /\ steps' = steps + 1
    /\ In("base", "start")
    /\ ~Accepts(tokens, "(")
    /\ ~Accepts(tokens, ".")
    /\ BaseStar(tokens)
    /\ tokens' = NextToken(tokens)
    /\ failure' = TRUE
    /\ errors' = Append(errors, UnexpectedSymbol("*", "base"))
    /\ ret' = Node
    /\ stack' = Pop
    /\ UNCHANGED <<inp, result, pc, round>>

\* Mutant: base builds the Normal and forgets next_token.
Base_Normal_NoAdvance ==
    /\ steps' = steps + 1
    /\ In("base", "start")
    /\ tokens # <<>>
    /\ tokens[1] \notin {"(", ".", "*"}
    /\ ret' = Normal(tokens[1])
    /\ stack' = Pop
    /\ UNCHANGED <<inp, tokens, failure, errors, result, pc, round>>

\* base: Normal(self.peek()), next_token; the peek faults on no input.
Base_Normal ==
    /\ steps' = steps + 1
    /\ In("base", "start")
    /\ ~Accepts(tokens, "(")
    /\ ~Accepts(tokens, ".")
    /\ ~BaseStar(tokens)
    /\ IF tokens = <<>>
       THEN /\ pc' = "crashed"
            /\ UNCHANGED <<tokens, ret, stack>>
       ELSE /\ pc' = pc
            /\ ret' = Normal(tokens[1])
            /\ tokens' = NextToken(tokens)
            /\ stack' = Pop
    /\ UNCHANGED <<inp, failure, errors, result, round>>

\* Whether regex, after its first term, consumes a '|'.
RegexAlt(toks) == toks # <<>> /\ Accepts(toks, "|")

\* regex: '|' follows the first term; the second term is called.
Regex_Alt ==
    /\ steps' = steps + 1
    /\ In("regex", "after_term1")
    /\ RegexAlt(tokens)
    /\ tokens' = NextToken(tokens)
    /\ stack' = SetTop([Top EXCEPT !.at = "after_term2", !.val = ret,
                                   !.bars = @ + 1])
                  \o << Frame("term", "loop", Len(tokens')) >>
    /\ UNCHANGED <<inp, failure, ret, errors, result, pc, round>>

\* regex: no '|' follows the first term, which is returned.
Regex_Term ==
    /\ steps' = steps + 1
    /\ In("regex", "after_term1")
    /\ ~RegexAlt(tokens)
    /\ stack' = Pop
    /\ UNCHANGED <<inp, tokens, failure, ret, errors, result, pc, round>>

\* Mutant: regex looks for another '|' after the second term.
Regex_Or_Chain ==
    /\ steps' = steps + 1
    /\ In("regex", "after_term2")
    /\ ret' = Or(Top.val, ret)
    /\ stack' = SetTop([Top EXCEPT !.at = "after_term1"])
    /\ UNCHANGED <<inp, tokens, failure, errors, result, pc, round>>

\* regex: return Or(term, term2)
Regex_Or ==
    /\ steps' = steps + 1
    /\ In("regex", "after_term2")
    /\ ret' = Or(Top.val, ret)
    /\ stack' = Pop
    /\ UNCHANGED <<inp, tokens, failure, errors, result, pc, round>>

\* Mutant: parse returns the tree whatever the failure flag says.
ParseResult_Partial(r, failed) == r

\* What parse returns.
ParseResult(r, failed) == IF ~failed THEN r ELSE None

\* parse: after regex, the trailing-input check and the result.
Parse_End ==
    /\ steps' = steps + 1
    /\ In("parse", "after_regex")
    /\ failure' = (failure \/ tokens # <<>>)
    /\ errors' = IF tokens # <<>>
                 THEN Append(errors, UnexpectedSymbol(tokens[1], "parse"))
                 ELSE errors
    /\ result' = ParseResult(ret, failure')
    /\ pc' = "done"
    /\ stack' = Pop
    /\ UNCHANGED <<inp, tokens, ret, round>>

\* A new Parser on the display form of the tree a parse returned.
Reparse ==
    /\ pc = "done"
    /\ result # None
    /\ round < MaxRounds
    /\ inp' = Render(result)
    /\ tokens' = inp'
    /\ failure' = FALSE
    /\ errors' = <<>>
    /\ ret' = None
    /\ result' = None
    /\ stack' = <<>>
    /\ pc' = "start"
    /\ round' = round + 1
    /\ steps' = 0

Next ==
    \/ Parse_Begin
    \/ Term_Factor
    \/ Term_Add
    \/ Term_Return
    \/ Factor_Return
    \/ Base_Group
    \/ Base_Expect
    \/ Base_Any
    \/ Base_Star
    \/ Base_Normal
    \/ Regex_Alt
    \/ Regex_Term
    \/ Regex_Or
    \/ Parse_End
    \/ Reparse

Spec == Init /\ [][Next]_vars

\* ------------------------------------------------------------- claims
IsTree(n) == n.t \in {"Normal", "Any", "ZeroOrMore", "Or", "Str"}

Recorded(e) == \E i \in 1..Len(errors) : errors[i] = e

\* C1: peek is never called with no input left, whatever the input: base
\* reaches its peek and term evaluates its peeks only while a character
\* remains, and no parse ends in the fault of peek.
C1_PeekNeverOnEmpty ==
    /\ pc # "crashed"
    /\ In("base", "start") => tokens # <<>>
    /\ (In("term", "loop") /\ TermGuard(tokens)) => tokens # <<>>

\* A malformed input whose base is entered on the last character.
C1_Witness ==
    /\ In("base", "start")
    /\ Len(tokens) = 1
    /\ failure

C2_Inv ==
    /\ failure <=> (errors # <<>>)
    /\ pc = "start" => ~failure
    /\ pc = "done" => result = (IF errors = <<>> THEN ret ELSE None)
    /\ (pc = "done" /\ errors = <<>>) => IsTree(result)

\* C2: parse returns the root node exactly when error was never called:
\* the flag starts unset, is set exactly when an error was recorded, is
\* never unset again, and a parse with an error returns None.
C2_TreeIffNoError == []C2_Inv /\ [][failure => failure']_vars

\* A parse that built a whole Or, recorded two errors and returned None.
C2_Witness ==
    /\ pc = "done"
    /\ Len(errors) >= 2
    /\ ret.t = "Or"
    /\ result = None

\* C3: the display form of a returned tree parses again, and the display
\* form of the tree parsed from a display form is that display form.
C3_RoundTrip ==
    (pc = "done" /\ round >= 1) =>
        /\ result # None
        /\ round >= 2 => Render(result) = inp

\* A failed parse of the display form of a returned tree.
C3_Witness ==
    /\ pc = "done"
    /\ round = 1
    /\ result = None

\* The reference grammar, as derivations of a whole string:
\*   regex  ::= term | term '|' term        -> the term, Or(term, term)
\*   term   ::= factor factor ...  (one or more)
\*                                     -> the factor alone, Str of the factors
\*   factor ::= base | base '*'             -> the base, ZeroOrMore(base)
\*   base   ::= char | '.' | '(' regex ')'  -> Normal, Any, the regex
RECURSIVE RefRegex(_)
RECURSIVE RefFactors(_)
RefBase(s) ==
    IF Len(s) = 1
    THEN IF s[1] = "." THEN {Any}
         ELSE IF s[1] \in {"(", ")", "|", "*"} THEN {}
         ELSE {Normal(s[1])}
    ELSE IF Len(s) >= 2 /\ s[1] = "(" /\ s[Len(s)] = ")"
         THEN RefRegex(SubSeq(s, 2, Len(s) - 1))
         ELSE {}

RefFactor(s) ==
    IF Len(s) >= 2 /\ s[Len(s)] = "*"
    THEN {ZeroOrMore(b) : b \in RefBase(SubSeq(s, 1, Len(s) - 1))}
    ELSE RefBase(s)

\* The sequences of factors a string splits into.
RefFactors(s) ==
    IF s = <<>> THEN {<<>>}
    ELSE UNION { LET fs == RefFactor(SubSeq(s, 1, k))
                 IN  IF fs = {} THEN {}
                     ELSE { <<f>> \o r : f \in fs,
                                r \in RefFactors(SubSeq(s, k + 1, Len(s))) }
                 : k \in 1..Len(s) }

RefTerm(s) ==
    { IF Len(fs) = 1 THEN fs[1] ELSE Str(fs) : fs \in RefFactors(s) \ {<<>>} }

RefRegex(s) ==
    RefTerm(s) \cup
    UNION { LET ls == RefTerm(SubSeq(s, 1, i - 1))
            IN  IF ls = {} THEN {}
                ELSE { Or(l, r) : l \in ls,
                          r \in RefTerm(SubSeq(s, i + 1, Len(s))) }
            : i \in {j \in 1..Len(s) : s[j] = "|"} }

C4_Examples ==
    /\ inp = <<"a", "*">> => result = ZeroOrMore(Normal("a"))
    /\ inp = <<"a", "b">> => result = Str(<<Normal("a"), Normal("b")>>)
    /\ inp = <<"a", "|", "b">> => result = Or(Normal("a"), Normal("b"))
    /\ inp = <<"a", "b", "*">>
         => result = Str(<<Normal("a"), ZeroOrMore(Normal("b"))>>)
    /\ inp = <<"a", "|", "b", "*">>
         => result = Or(Normal("a"), ZeroOrMore(Normal("b")))
    /\ inp = <<"(", "a", "|", "b", ")", "*">>
         => result = ZeroOrMore(Or(Normal("a"), Normal("b")))

\* C4: for every input the reference grammar derives, parse returns the
\* tree of that derivation: '*' wraps the base before it, the factors of a
\* term form one Str in input order, a single factor is returned alone, a
\* '|' gives Or(left term, right term).
C4_TreeOfGrammar ==
    pc = "done" =>
        /\ RefRegex(inp) # {} => result \in RefRegex(inp)
        /\ C4_Examples

\* A returned tree with an Or of a two-factor Str and a ZeroOrMore.
C4_Witness ==
    /\ pc = "done"
    /\ round = 0
    /\ RefRegex(inp) # {}
    /\ result.t = "Or"
    /\ result.exp1.t = "Str"
    /\ result.exp2.t = "ZeroOrMore"

FirstIs(c) == inp # <<>> /\ inp[1] = c

\* C5 as stated: an input starting with ')' fails, and Unexpected
\* symbol: ) is recorded by the base rule.
C5_RecordedByBase ==
    (pc = "done" /\ FirstIs(")")) =>
        /\ result = None
        /\ Recorded(UnexpectedSymbol(")", "base"))

\* C5 amended: an input starting with ')' fails; term records Empty
\* factor first, then parse records Unexpected symbol: ) in its check for
\* trailing input; base is never entered with ')' as the next character.
C5_RecordedByParse ==
    /\ In("base", "start") => (tokens # <<>> /\ tokens[1] # ")")
    /\ (pc = "done" /\ FirstIs(")")) =>
        /\ result = None
        /\ tokens = inp
        /\ errors = <<EmptyFactor("term"), UnexpectedSymbol(")", "parse")>>

\* The input ")(" after parse.
C5_Witness ==
    /\ pc = "done"
    /\ inp = <<")", "(">>
    /\ Len(errors) = 2

\* A '*' at the start of the input or right after '(', '|' or '*'.
StrayStar(s) ==
    \E i \in 1..Len(s) :
        /\ s[i] = "*"
        /\ (i = 1 \/ s[i - 1] \in {"(", "|", "*"})

C6_Inv ==
    (pc = "done" /\ StrayStar(inp)) => result = None

\* base entered on '*' records the error and builds a bare Node.
C6_BaseOnStar ==
    (In("base", "start") /\ tokens # <<>> /\ tokens[1] = "*") =>
        /\ errors' = Append(errors, UnexpectedSymbol("*", "base"))
        /\ failure'
        /\ ret' = Node
        /\ tokens' = Tail(tokens)

\* factor consumes at most the one '*' that follows its base.
C6_FactorOnce ==
    In("factor", "after_base") =>
        /\ Len(tokens) - Len(tokens') <= 1
        /\ Len(stack') < Len(stack)
        /\ ret' \in {ret, ZeroOrMore(ret)}

RECURSIVE NoShortStr(_)
RECURSIVE NoShortStrAll(_)
NoShortStr(n) ==
    CASE n.t = "ZeroOrMore" -> NoShortStr(n.exp)
      [] n.t = "Or" -> NoShortStr(n.exp1) /\ NoShortStr(n.exp2)
      [] n.t = "Str" -> Len(n.exps) >= 2 /\ NoShortStrAll(n.exps)
      [] OTHER -> TRUE

NoShortStrAll(es) ==
    es = <<>> \/ (NoShortStr(Head(es)) /\ NoShortStrAll(Tail(es)))

\* term is about to leave its loop.
TermLeaves == In("term", "loop") /\ TermCond(tokens) = "exit"

C7_Inv ==
    /\ TermLeaves => (Top.exps = <<>> <=> Len(tokens) = Top.n0)
    /\ TermLeaves => (tokens = <<>> \/ tokens[1] \in {")", "|"})
    /\ (pc = "done" /\ inp \in {<<>>, <<"(", ")">>}) =>
          (result = None /\ Recorded(EmptyFactor("term")))
    /\ (pc = "done" /\ result # None) => NoShortStr(result)

\* term records Empty factor exactly when it leaves with no factor.
C7_TermLeaves ==
    TermLeaves =>
        errors' = IF Top.exps = <<>>
                  THEN Append(errors, EmptyFactor("term"))
                  ELSE errors

RECURSIVE Depth(_)
Depth(s) ==
    IF s = <<>> THEN 0
    ELSE Depth(SubSeq(s, 1, Len(s) - 1))
           + (IF s[Len(s)] = "(" THEN 1 ELSE IF s[Len(s)] = ")" THEN -1 ELSE 0)

\* An input without '|' whose ')' all close a group and which ends with a
\* group still open.
EndsUnclosed(s) ==
    /\ \A i \in 1..Len(s) : s[i] # "|" /\ Depth(SubSeq(s, 1, i)) >= 0
    /\ Depth(s) > 0

C8_Inv ==
    /\ (pc = "done" /\ EndsUnclosed(inp)) =>
          (result = None /\ Recorded(UnexpectedEOF("expect")))
    /\ (pc = "done" /\ inp = <<"a", "(">>) =>
          errors = <<EmptyFactor("term"), UnexpectedEOF("expect")>>
    /\ (pc = "done" /\ Recorded(UnexpectedEOF("expect"))) => result = None

\* expect(')') without a ')' next: nothing consumed, the error recorded,
\* base returns to factor.
C8_MissingParen ==
    (In("base", "after_regex") /\ ~Accepts(tokens, ")")) =>
        /\ tokens' = tokens
        /\ failure'
        /\ errors' = Append(errors,
                        IF tokens = <<>> THEN UnexpectedEOF("expect")
                        ELSE UnexpectedSymbol(tokens[1], "expect"))
        /\ pc' = "running"
        /\ stack' = Pop
        /\ ret' = ret

\* C8: a failed expect(')') consumes nothing, records Unexpected end of
\* file on no input and Unexpected symbol: <next> otherwise, and the parse
\* goes on; an input that ends with a group open fails with Unexpected
\* end of file.
C8_Expect == []C8_Inv /\ [][C8_MissingParen]_vars

\* The input "a(" after parse.
C8_Witness ==
    /\ pc = "done"
    /\ inp = <<"a", "(">>
    /\ Recorded(UnexpectedEOF("expect"))

\* s is t1|t2|t3 for three terms of the reference grammar; j is where the
\* second '|' stands.
ChainAt(s, j) ==
    /\ s[j] = "|"
    /\ RefTerm(SubSeq(s, j + 1, Len(s))) # {}
    /\ \E i \in 1..(j - 1) :
          /\ s[i] = "|"
          /\ RefTerm(SubSeq(s, 1, i - 1)) # {}
          /\ RefTerm(SubSeq(s, i + 1, j - 1)) # {}

C9_Inv ==
    /\ \A k \in 1..Len(stack) : stack[k].bars <= 1
    /\ pc = "done" =>
          \A j \in 1..Len(inp) :
              ChainAt(inp, j) =>
                  /\ result = None
                  /\ ret.t = "Or"
                  /\ tokens = SubSeq(inp, j, Len(inp))
                  /\ errors = <<UnexpectedSymbol("|", "parse")>>

\* A regex that has consumed its '|' consumes no other.
C9_OneBar ==
    In("regex", "after_term2") =>
        /\ tokens' = tokens
        /\ Len(stack') < Len(stack)

\* C9: one call of regex consumes at most one '|'; on t1|t2|t3 the top
\* regex returns Or(t1, t2), the second '|' stays unconsumed and parse
\* fails with Unexpected symbol: | for the trailing input.
C9_BinaryAlternation == []C9_Inv /\ [][C9_OneBar]_vars

\* The chain a|.|a after parse.
C9_Witness ==
    /\ pc = "done"
    /\ inp = <<"a", "|", ".", "|", "a">>
    /\ tokens = <<"|", "a">>
    /\ result = None

\* The '(' among the characters consumed so far.
Opened ==
    Cardinality({i \in 1..(Len(inp) - Len(tokens)) : inp[i] = "("})

C10_Inv ==
    /\ Len(tokens) <= Len(inp)
    /\ tokens = SubSeq(inp, Len(inp) - Len(tokens) + 1, Len(inp))
    /\ Len(stack) <= 5 + 4 * Opened
    /\ Len(stack) <= 5 + 4 * Len(inp)
    /\ steps <= 4 + 7 * Len(inp)
    /\ pc = "running" => ENABLED Next
    /\ pc # "crashed"

C10_Consumes ==
    /\ pc' # "start" => Len(tokens') <= Len(tokens)
    /\ (pc = "running" /\ Top.rule = "base" /\ Len(stack') < Len(stack))
          => Len(tokens') < Top.n0
    /\ In("term", "add") => Len(tokens) < Len(inp) - Len(Top.exps)

\* C10: parse terminates: the tokens are a suffix of the input that never
\* grows, every return of base has consumed a character, the stack is at
\* most four frames deeper per consumed '(', the steps of a parse are
\* bounded by the length of the input and a running parse can always step.
C10_Terminates == []C10_Inv /\ [][C10_Consumes]_vars

\* A malformed input after parse: a group inside a group, both unclosed.
C10_Witness ==
    /\ pc = "done"
    /\ Len(inp) >= 4
    /\ inp[1] = "("
    /\ inp[2] = "("
    /\ Len(errors) >= 2
    /\ tokens = <<>>

====
